---------------------------- MODULE Spec2Model ----------------------------
(***************************************************************************)
(* Gabmap <-> Diatech converter (src/converter_core.py).                   *)
(*                                                                         *)
(* Text is a sequence of one-character strings.  The Python string         *)
(* methods the converter uses (strip, split, splitlines, lower, join,      *)
(* float, repr of a float, csv.reader, the header regular expression) are  *)
(* operators on such sequences.  A KML document is the element tree that   *)
(* xml.etree hands to the converter: a sequence of Placemark records.      *)
(* A Python dict is a sequence of [k, v] records in insertion order.       *)
(***************************************************************************)
EXTENDS Integers, Sequences, FiniteSets, TLC

VARIABLES
    prog,              \* the calls being made (see Flow)
    pc,                \* position in Flow(prog): the next call
    exc,               \* name of the exception that ended the run, or ""
    txt_bytes,         \* Gabmap TXT input (decoded text)
    kml_bytes,         \* Gabmap KML input (element tree)
    conceptos,         \* convert_gabmap_to_diatech: conceptos
    datos,             \* convert_gabmap_to_diatech: datos
    localidades_kml,   \* convert_gabmap_to_diatech: localidades_kml
    csv_bytes,         \* Diatech CSV: output of the first direction, input of the second
    boundaries_bytes,  \* Diatech boundaries CSV (None or text)
    stats,             \* convert_gabmap_to_diatech: stats
    d_conceptos,       \* convert_diatech_to_gabmap: conceptos
    d_datos,           \* convert_diatech_to_gabmap: datos
    d_localidades,     \* convert_diatech_to_gabmap: localidades
    txt_out,           \* convert_diatech_to_gabmap: txt_bytes
    kml_out,           \* convert_diatech_to_gabmap: kml_bytes (element tree after parsing)
    d_stats,           \* convert_diatech_to_gabmap: stats
    r_conceptos,       \* read_dialec_txt_from_bytes(txt_out): conceptos
    r_datos,           \* read_dialec_txt_from_bytes(txt_out): datos
    r_boundaries       \* extract_country_boundaries_bytes(kml_out)

vars == <<prog, pc, exc, txt_bytes, kml_bytes, conceptos, datos, localidades_kml,
          csv_bytes, boundaries_bytes, stats, d_conceptos, d_datos,
          d_localidades, txt_out, kml_out, d_stats, r_conceptos, r_datos,
          r_boundaries>>

-----------------------------------------------------------------------------
(* Python values *)

None == [none |-> TRUE]
Some(v) == [none |-> FALSE, v |-> v]

TAB == "\t"
LF == "\n"
CR == "\r"
SP == " "
QUOTE == "\""

\* str.isspace for the characters of the model
IsSpace(c) == c \in {SP, TAB, LF, CR}

IsDigit(c) == c \in {"0", "1", "2", "3", "4", "5", "6", "7", "8", "9"}

\* ord(c): Unicode code point, the order sorted() compares strings by
Ord(c) ==
    CASE c = TAB -> 9 [] c = LF -> 10 [] c = CR -> 13 [] c = SP -> 32
      [] c = QUOTE -> 34 [] c = "+" -> 43 [] c = "," -> 44 [] c = "-" -> 45
      [] c = "." -> 46
      [] c = "0" -> 48 [] c = "1" -> 49 [] c = "2" -> 50 [] c = "3" -> 51
      [] c = "4" -> 52 [] c = "5" -> 53 [] c = "6" -> 54 [] c = "7" -> 55
      [] c = "8" -> 56 [] c = "9" -> 57
      [] c = ";" -> 59
      [] c = "A" -> 65 [] c = "B" -> 66 [] c = "C" -> 67 [] c = "D" -> 68
      [] c = "[" -> 91 [] c = "]" -> 93
      [] c = "a" -> 97 [] c = "b" -> 98 [] c = "c" -> 99 [] c = "d" -> 100
      [] c = "x" -> 120 [] c = "y" -> 121 [] c = "z" -> 122

\* str.lower on one character
LowerChar(c) ==
    CASE c = "A" -> "a" [] c = "B" -> "b" [] c = "C" -> "c" [] c = "D" -> "d"
      [] OTHER -> c

\* str.lower
Lower(s) == [i \in 1..Len(s) |-> LowerChar(s[i])]

RECURSIVE LStripSet(_, _)
LStripSet(s, cs) ==
    IF s # <<>> /\ Head(s) \in cs THEN LStripSet(Tail(s), cs) ELSE s

RECURSIVE RStripSet(_, _)
RStripSet(s, cs) ==
    IF s # <<>> /\ s[Len(s)] \in cs
    THEN RStripSet(SubSeq(s, 1, Len(s) - 1), cs)
    ELSE s

\* str.strip()
Strip(s) == RStripSet(LStripSet(s, {SP, TAB, LF, CR}), {SP, TAB, LF, CR})

\* str.strip('"')
StripQuotes(s) == RStripSet(LStripSet(s, {QUOTE}), {QUOTE})

\* c in s
Contains(s, c) == \E i \in 1..Len(s) : s[i] = c

\* s.find(c): index of the first c in s (1-based), 0 when there is none
Find(s, c) ==
    IF Contains(s, c)
    THEN CHOOSE i \in 1..Len(s) : s[i] = c /\ \A j \in 1..(i - 1) : s[j] # c
    ELSE 0

\* str.split(sep) for a one-character separator
RECURSIVE Split(_, _)
Split(s, sep) ==
    LET i == Find(s, sep)
    IN  IF i = 0
        THEN <<s>>
        ELSE <<SubSeq(s, 1, i - 1)>> \o Split(SubSeq(s, i + 1, Len(s)), sep)

\* str.split() without arguments: the maximal runs of non-whitespace
RECURSIVE SplitWS(_)
SplitWS(s) ==
    LET t == LStripSet(s, {SP, TAB, LF, CR})
        n == IF \E i \in 1..Len(t) : IsSpace(t[i])
             THEN (CHOOSE i \in 1..Len(t) :
                      IsSpace(t[i]) /\ \A j \in 1..(i - 1) : ~IsSpace(t[j])) - 1
             ELSE Len(t)
    IN  IF t = <<>>
        THEN <<>>
        ELSE <<SubSeq(t, 1, n)>> \o SplitWS(SubSeq(t, n + 1, Len(t)))

\* str.splitlines(): breaks at \n, \r\n and \r; no empty last line
RECURSIVE SplitLines(_)
SplitLines(s) ==
    IF s = <<>>
    THEN <<>>
    ELSE LET brk == {i \in 1..Len(s) : s[i] \in {LF, CR}}
             i == CHOOSE i \in brk : \A j \in brk : i <= j
             w == IF s[i] = CR /\ i < Len(s) /\ s[i + 1] = LF THEN 2 ELSE 1
         IN  IF brk = {}
             THEN <<s>>
             ELSE <<SubSeq(s, 1, i - 1)>> \o SplitLines(SubSeq(s, i + w, Len(s)))

\* sep.join(parts)
RECURSIVE Join(_, _)
Join(parts, sep) ==
    IF parts = <<>> THEN <<>>
    ELSE IF Len(parts) = 1 THEN parts[1]
    ELSE parts[1] \o sep \o Join(Tail(parts), sep)

\* a < b for strings (code point order, a proper prefix first)
RECURSIVE StrLess(_, _)
StrLess(a, b) ==
    IF b = <<>> THEN FALSE
    ELSE IF a = <<>> THEN TRUE
    ELSE IF Head(a) = Head(b) THEN StrLess(Tail(a), Tail(b))
    ELSE Ord(Head(a)) < Ord(Head(b))

\* sorted(S) for a set of strings
RECURSIVE Sorted(_)
Sorted(S) ==
    IF S = {} THEN <<>>
    ELSE LET m == CHOOSE m \in S : \A o \in S : o = m \/ StrLess(m, o)
         IN  <<m>> \o Sorted(S \ {m})

-----------------------------------------------------------------------------
(* float(s) and repr(float).  A float is its decimal expansion: sign,       *)
(* integer digits without leading zeros, fraction digits without trailing  *)
(* zeros.  The numbers of the model have at most three digits, far from    *)
(* the 17 significant digits and the 1e16 / 1e-4 limits where repr rounds  *)
(* or switches to exponent notation.                                       *)

RECURSIVE DropLeadingZeros(_)
DropLeadingZeros(ds) ==
    IF ds # <<>> /\ Head(ds) = "0" THEN DropLeadingZeros(Tail(ds)) ELSE ds

RECURSIVE DropTrailingZeros(_)
DropTrailingZeros(ds) ==
    IF ds # <<>> /\ ds[Len(ds)] = "0"
    THEN DropTrailingZeros(SubSeq(ds, 1, Len(ds) - 1))
    ELSE ds

AllDigits(ds) == \A i \in 1..Len(ds) : IsDigit(ds[i])

\* float(s): [ok |-> FALSE] stands for ValueError
ParseFloat(s) ==
    LET t == Strip(s)
        signed == t # <<>> /\ Head(t) \in {"-", "+"}
        u == IF signed THEN Tail(t) ELSE t
        dot == Find(u, ".")
        ip == IF dot = 0 THEN u ELSE SubSeq(u, 1, dot - 1)
        fp == IF dot = 0 THEN <<>> ELSE SubSeq(u, dot + 1, Len(u))
    IN  IF AllDigits(ip) /\ AllDigits(fp) /\ Len(ip) + Len(fp) > 0
        THEN [ok |-> TRUE,
              v  |-> [neg |-> signed /\ Head(t) = "-",
                      ip  |-> DropLeadingZeros(ip),
                      fp  |-> DropTrailingZeros(fp)]]
        ELSE [ok |-> FALSE]

\* f'{x}' for a float x
FloatRepr(x) ==
    (IF x.neg THEN <<"-">> ELSE <<>>)
        \o (IF x.ip = <<>> THEN <<"0">> ELSE x.ip)
        \o <<".">>
        \o (IF x.fp = <<>> THEN <<"0">> ELSE x.fp)

-----------------------------------------------------------------------------
(* dict: insertion-ordered sequence of [k, v] *)

DictHas(d, k) == \E i \in 1..Len(d) : d[i].k = k

DictGet(d, k) == d[CHOOSE i \in 1..Len(d) : d[i].k = k].v

\* d[k] = v: a new key is appended, an existing key keeps its position
DictSet(d, k, v) ==
    IF DictHas(d, k)
    THEN [i \in 1..Len(d) |-> IF d[i].k = k THEN [k |-> k, v |-> v] ELSE d[i]]
    ELSE Append(d, [k |-> k, v |-> v])

\* list(d.keys())
Keys(d) == [i \in 1..Len(d) |-> d[i].k]

KeySet(d) == {d[i].k : i \in 1..Len(d)}

-----------------------------------------------------------------------------
(* KML element tree.  An element's text is None when the element is empty.  *)
(* A Placemark is                                                           *)
(*   name, description : the child elements kml:name, kml:description       *)
(*   point, polygon    : a kml:Point / kml:Polygon occurs inside it          *)
(*   coordinates       : the first kml:coordinates element inside it         *)
(*   ring              : the first kml:coordinates inside its first Polygon  *)

NoElem == [elem |-> FALSE]
Elem(text) == [elem |-> TRUE, text |-> text]

\* normalize_name without lower(): names compared with their case
NormalizeNameKeepCase(name) == Strip(name)

\* normalize_name
normalize_name(name) == Strip(Lower(name))

\* the body of the Placemark loop after the Polygon test
ParsePointPlacemark(p, localidades) ==
    IF p.name.elem /\ p.coordinates.elem
    THEN LET nombre == IF p.name.text = None THEN <<>> ELSE Strip(p.name.text.v)
             descripcion == IF p.description.elem /\ p.description.text # None
                            THEN Strip(p.description.text.v)
                            ELSE <<>>
             coords_str == Strip(p.coordinates.text.v)
             first_coord == IF Contains(coords_str, SP)
                            THEN SplitWS(coords_str)[1]
                            ELSE coords_str
             parts == Split(first_coord, ",")
             lon == ParseFloat(parts[1])
             lat == ParseFloat(parts[2])
         IN  IF p.coordinates.text = None
             THEN [exc |-> "AttributeError", localidades |-> localidades]
             ELSE IF coords_str # <<>> /\ Len(parts) >= 2 /\ lon.ok /\ lat.ok
             THEN [exc |-> "",
                   localidades |->
                       DictSet(localidades, nombre,
                               [lat |-> lat.v, lon |-> lon.v, code |-> descripcion])]
             ELSE [exc |-> "", localidades |-> localidades]
    ELSE [exc |-> "", localidades |-> localidades]

\* the Placemark loop without the Polygon test
ParseEveryPlacemark(p, localidades) == ParsePointPlacemark(p, localidades)

\* one iteration of the Placemark loop: the locality mapping after it, or raised
ParsePlacemark(p, localidades) ==
    IF p.polygon
    THEN [exc |-> "", localidades |-> localidades]
    ELSE ParsePointPlacemark(p, localidades)

RECURSIVE ParsePlacemarks(_, _)
ParsePlacemarks(pms, localidades) ==
    IF pms = <<>>
    THEN [exc |-> "", localidades |-> localidades]
    ELSE LET r == ParsePlacemark(Head(pms), localidades)
         IN  IF r.exc # "" THEN r ELSE ParsePlacemarks(Tail(pms), r.localidades)

\* parse_kml_from_bytes
parse_kml_from_bytes(kml) == ParsePlacemarks(kml, <<>>)

\* [''] * n: a list of n empty strings, empty when n is not positive
Blanks(n) == [j \in 1..(IF n > 0 THEN n ELSE 0) |-> <<>>]

\* the variants of one data line, cut or padded to the concept count
AdjustVariantes(variantes, n) ==
    IF Len(variantes) > n
    THEN SubSeq(variantes, 1, n)
    ELSE variantes \o Blanks(n - Len(variantes))

RECURSIVE ReadDialecLines(_, _, _)
ReadDialecLines(lines, n, d) ==
    IF lines = <<>>
    THEN d
    ELSE LET parts == Split(Strip(Head(lines)), TAB)
         IN  ReadDialecLines(Tail(lines), n,
                 IF Len(parts) >= 2
                 THEN DictSet(d, Strip(parts[1]), AdjustVariantes(Tail(parts), n))
                 ELSE d)

\* read_dialec_txt_from_bytes (text that the first candidate encoding decodes)
read_dialec_txt_from_bytes(txt) ==
    LET lines == SplitLines(txt)
        first == Split(Strip(lines[1]), TAB)
        cs == IF lines = <<>> THEN <<>>
              ELSE IF Strip(first[1]) = <<>> THEN Tail(first)
              ELSE first
    IN  [conceptos |-> cs,
         datos |-> IF lines = <<>> THEN <<>>
                   ELSE ReadDialecLines(Tail(lines), Len(cs), <<>>)]

\* the dict keyed by normalized KML name; a later name replaces an earlier one
LocalidadesNormalizadas(lk) ==
    LET RECURSIVE Build(_, _)
        Build(i, acc) ==
            IF i > Len(lk) THEN acc
            ELSE Build(i + 1, DictSet(acc, normalize_name(lk[i].k),
                                      [nombre |-> lk[i].k, info |-> lk[i].v]))
    IN  Build(1, <<>>)

\* the header field written for one locality of the table
Encabezado(nombre_localidad, normalizadas) ==
    LET nombre_norm == normalize_name(nombre_localidad)
        hit == DictGet(normalizadas, nombre_norm)
    IN  IF DictHas(normalizadas, nombre_norm)
        THEN <<QUOTE>> \o hit.nombre \o <<"[">> \o FloatRepr(hit.info.lat)
                 \o <<",">> \o FloatRepr(hit.info.lon) \o <<"]", QUOTE>>
        ELSE <<QUOTE>> \o nombre_localidad \o <<QUOTE>>

\* one body row: the concept and each locality's variant at index i
FilaConcepto(i, cs, d) ==
    <<QUOTE>> \o cs[i] \o <<QUOTE, ";">>
        \o Join([j \in 1..Len(d) |->
                    IF i <= Len(d[j].v)
                    THEN <<QUOTE>> \o d[j].v[i] \o <<QUOTE>>
                    ELSE <<QUOTE, QUOTE>>], <<";">>)
        \o <<CR, LF>>

RECURSIVE Concat(_)
Concat(ss) == IF ss = <<>> THEN <<>> ELSE Head(ss) \o Concat(Tail(ss))

\* create_diatech_csv_bytes
create_diatech_csv_bytes(cs, d, lk) ==
    LET normalizadas == LocalidadesNormalizadas(lk)
        encabezados == [j \in 1..Len(d) |-> Encabezado(d[j].k, normalizadas)]
    IN  <<QUOTE, QUOTE, ";">> \o Join(encabezados, <<";">>) \o <<CR, LF>>
            \o Concat([i \in 1..Len(cs) |-> FilaConcepto(i, cs, d)])

\* one line of the boundaries CSV for a coordinate token, nothing for a short one
BoundaryLine(coord_pair) ==
    LET parts == Split(coord_pair, ",")
    IN  IF Len(parts) >= 2
        THEN <<QUOTE>> \o Strip(parts[1]) \o <<QUOTE, ";", QUOTE>>
                 \o Strip(parts[2]) \o <<QUOTE, CR, LF>>
        ELSE <<>>

\* extract_country_boundaries_bytes
extract_country_boundaries_bytes(kml) ==
    LET polygons == {i \in 1..Len(kml) : kml[i].polygon}
        first == CHOOSE i \in polygons : \A j \in polygons : i <= j
        coords_elem == kml[first].ring
        coord_pairs == SplitWS(Strip(coords_elem.text.v))
    IN  IF polygons # {} /\ coords_elem.elem /\ coords_elem.text # None
        THEN Some(Concat([i \in 1..Len(coord_pairs) |-> BoundaryLine(coord_pairs[i])]))
        ELSE None

\* first n elements of a list
Take(s, n) == SubSeq(s, 1, IF Len(s) < n THEN Len(s) ELSE n)

MaxFaltantesLista == 10

\* the statistics of convert_gabmap_to_diatech
GabmapStats(cs, d, lk) ==
    LET nombres_txt == {normalize_name(n) : n \in KeySet(d)}
        nombres_kml == {normalize_name(n) : n \in KeySet(lk)}
        coincidencias == nombres_txt \cap nombres_kml
        faltantes == nombres_txt \ nombres_kml
    IN  [conceptos |-> Len(cs),
         localidades |-> Len(d),
         localidades_con_coordenadas |-> Len(lk),
         coincidencias |-> Cardinality(coincidencias),
         faltantes |-> Cardinality(faltantes),
         faltantes_lista |-> Take(Sorted(faltantes), MaxFaltantesLista)]

-----------------------------------------------------------------------------
(* Diatech -> Gabmap *)

\* csv.reader(delimiter=';', quotechar='"') on one line without line break:
\* the parser of the csv module, one character per step
RECURSIVE CsvFields(_, _, _, _, _)
CsvFields(s, i, state, field, row) ==
    IF i > Len(s)
    THEN Append(row, field)
    ELSE LET c == s[i]
         IN  CASE state = "START_FIELD" ->
                    IF c = QUOTE THEN CsvFields(s, i + 1, "IN_QUOTED_FIELD", field, row)
                    ELSE IF c = ";" THEN CsvFields(s, i + 1, "START_FIELD", <<>>, Append(row, field))
                    ELSE CsvFields(s, i + 1, "IN_FIELD", Append(field, c), row)
               [] state = "IN_FIELD" ->
                    IF c = ";" THEN CsvFields(s, i + 1, "START_FIELD", <<>>, Append(row, field))
                    ELSE CsvFields(s, i + 1, "IN_FIELD", Append(field, c), row)
               [] state = "IN_QUOTED_FIELD" ->
                    IF c = QUOTE THEN CsvFields(s, i + 1, "QUOTE_IN_QUOTED_FIELD", field, row)
                    ELSE CsvFields(s, i + 1, "IN_QUOTED_FIELD", Append(field, c), row)
               [] state = "QUOTE_IN_QUOTED_FIELD" ->
                    IF c = QUOTE THEN CsvFields(s, i + 1, "IN_QUOTED_FIELD", Append(field, c), row)
                    ELSE IF c = ";" THEN CsvFields(s, i + 1, "START_FIELD", <<>>, Append(row, field))
                    ELSE CsvFields(s, i + 1, "IN_FIELD", Append(field, c), row)

\* next(csv.reader(io.StringIO(line), ...)): an empty line has no row to give
CsvRow(line) ==
    IF line = <<>>
    THEN [exc |-> "StopIteration"]
    ELSE [exc |-> "", row |-> CsvFields(line, 1, "START_FIELD", <<>>, <<>>)]

IsNumChar(c) == IsDigit(c) \/ c \in {".", "-"}

\* length of the longest prefix of s[i..] whose characters satisfy the class
RECURSIVE RunNum(_, _)
RunNum(s, i) == IF i <= Len(s) /\ IsNumChar(s[i]) THEN 1 + RunNum(s, i + 1) ELSE 0

RECURSIVE RunSpace(_, _)
RunSpace(s, i) == IF i <= Len(s) /\ IsSpace(s[i]) THEN 1 + RunSpace(s, i + 1) ELSE 0

\* \[([0-9.-]+)\s*,\s*([0-9.-]+)\]"?$ matched at position i of col, with
\* group 1 taken from position start to i - 1
BracketMatch(col, start, i) ==
    LET a == i + 1
        n1 == RunNum(col, a)
        b == a + n1 + RunSpace(col, a + n1)
        c == b + 1 + RunSpace(col, b + 1)
        e == c + RunNum(col, c)
    IN  IF /\ i <= Len(col) /\ col[i] = "["
           /\ n1 >= 1
           /\ b <= Len(col) /\ col[b] = ","
           /\ e > c
           /\ SubSeq(col, e, Len(col)) \in {<<"]">>, <<"]", QUOTE>>}
        THEN [ok |-> TRUE,
              g1 |-> SubSeq(col, start, i - 1),
              g2 |-> SubSeq(col, a, a + n1 - 1),
              g3 |-> SubSeq(col, c, e - 1)]
        ELSE [ok |-> FALSE]

\* (.+?) from position start: the shortest name, of one character at least,
\* that lets the rest of the pattern match at position i or later
RECURSIVE MatchFrom(_, _, _)
MatchFrom(col, start, i) ==
    IF i > Len(col) THEN [ok |-> FALSE]
    ELSE IF BracketMatch(col, start, i).ok THEN BracketMatch(col, start, i)
    ELSE MatchFrom(col, start, i + 1)

\* re.match(r'^"?(.+?)\[([0-9.-]+)\s*,\s*([0-9.-]+)\]"?$', col): the optional
\* leading quote is taken first, and given back when nothing matches after it
HeaderMatch(col) ==
    IF col # <<>> /\ col[1] = QUOTE /\ MatchFrom(col, 2, 3).ok
    THEN MatchFrom(col, 2, 3)
    ELSE MatchFrom(col, 1, 2)

\* the name of a header field without brackets
PlainHeaderName(col) ==
    IF Contains(StripQuotes(col), "[") /\ Contains(StripQuotes(col), "]")
    THEN Strip(Split(StripQuotes(col), "[")[1])
    ELSE StripQuotes(col)

\* a header field that matched: group 1 and float() of the two numbers
MatchedHeader(nombre_completo, lat, lon) ==
    IF lat.ok /\ lon.ok
    THEN [exc |-> "",
          nombre |-> Strip(Split(StripQuotes(nombre_completo), ",")[1]),
          info |-> [lat |-> lat.v, lon |-> lon.v]]
    ELSE [exc |-> "ValueError"]

\* HeaderField with the two bracket numbers taken in the other order
HeaderFieldLonLat(col) ==
    IF HeaderMatch(col).ok
    THEN MatchedHeader(HeaderMatch(col).g1,
                       ParseFloat(HeaderMatch(col).g3), ParseFloat(HeaderMatch(col).g2))
    ELSE [exc |-> "", nombre |-> PlainHeaderName(col), info |-> [lat |-> None, lon |-> None]]

\* one header field: the locality name and its coordinates, or ValueError from float()
HeaderField(col) ==
    IF HeaderMatch(col).ok
    THEN MatchedHeader(HeaderMatch(col).g1,
                       ParseFloat(HeaderMatch(col).g2), ParseFloat(HeaderMatch(col).g3))
    ELSE [exc |-> "", nombre |-> PlainHeaderName(col), info |-> [lat |-> None, lon |-> None]]

\* the header loop over the fields hs as HeaderField reads them:
\* nombres_localidades and localidades, or the first exception
RECURSIVE ReadHeader(_, _, _)
ReadHeader(hs, nombres, localidades) ==
    IF hs = <<>>
    THEN [exc |-> "", nombres |-> nombres, localidades |-> localidades]
    ELSE IF Head(hs).exc # ""
    THEN [exc |-> Head(hs).exc]
    ELSE ReadHeader(Tail(hs), Append(nombres, Head(hs).nombre),
                    DictSet(localidades, Head(hs).nombre, Head(hs).info))

\* the variants of one row stored at the index of the current concept
RECURSIVE StoreRow(_, _, _, _, _)
StoreRow(variantes, i, nombres, n, d) ==
    IF i > Len(variantes)
    THEN d
    ELSE IF i <= Len(nombres)
    THEN LET old == IF DictHas(d, nombres[i]) THEN DictGet(d, nombres[i]) ELSE <<>>
             grown == old \o Blanks(n - Len(old))
             new == [grown EXCEPT ![n] = Strip(StripQuotes(variantes[i]))]
         IN  StoreRow(variantes, i + 1, nombres, n, DictSet(d, nombres[i], new))
    ELSE StoreRow(variantes, i + 1, nombres, n, d)

\* the first field of a row: row[0].strip().strip('"').strip()
Concepto(row) == Strip(StripQuotes(Strip(row[1])))

\* the loop over the body lines; a line that is empty has no row to give
RECURSIVE ReadRows(_, _, _, _, _)
ReadRows(rows, nombres, localidades, cs, d) ==
    IF rows = <<>>
    THEN [exc |-> "", conceptos |-> cs, datos |-> d, localidades |-> localidades]
    ELSE IF Head(rows).exc # ""
    THEN [exc |-> Head(rows).exc]
    ELSE IF Concepto(Head(rows).row) = <<>>
    THEN ReadRows(Tail(rows), nombres, localidades, cs, d)
    ELSE ReadRows(Tail(rows), nombres, localidades,
                  Append(cs, Concepto(Head(rows).row)),
                  StoreRow(Tail(Head(rows).row), 1, nombres, Len(cs) + 1, d))

\* the part of read_diatech_csv_from_bytes after the header loop
ReadBody(lines, h) ==
    IF h.exc # ""
    THEN h
    ELSE ReadRows([i \in 1..(Len(lines) - 1) |-> CsvRow(lines[i + 1])],
                  h.nombres, h.localidades, <<>>, <<>>)

\* the part of read_diatech_csv_from_bytes after the header line is parsed
ReadFields(lines, header) ==
    IF header.exc # ""
    THEN header
    ELSE ReadBody(lines,
                  ReadHeader([i \in 1..(Len(header.row) - 1) |->
                                 HeaderField(header.row[i + 1])], <<>>, <<>>))

\* read_diatech_csv_from_bytes
read_diatech_csv_from_bytes(csv) ==
    IF SplitLines(csv) = <<>>
    THEN [exc |-> "", conceptos |-> <<>>, datos |-> <<>>, localidades |-> <<>>]
    ELSE ReadFields(SplitLines(csv), CsvRow(SplitLines(csv)[1]))

\* the name written for a table key: a key with both brackets loses the brackets
\* and, then, the department after a comma
NombreLimpio(nombre_localidad) ==
    IF Contains(nombre_localidad, "[") /\ Contains(nombre_localidad, "]")
    THEN Strip(Split(Strip(Split(nombre_localidad, "[")[1]), ",")[1])
    ELSE nombre_localidad

\* the variants of every entry after the in-place padding of the writer
PadDatos(cs, d) ==
    [i \in 1..Len(d) |->
        [k |-> d[i].k,
         v |-> d[i].v \o Blanks(Len(cs) - Len(d[i].v))]]

\* the table visited in insertion order, without sorted()
WriteOrderAsInserted(d) == Keys(d)

\* the order in which the writer visits the table: sorted(datos.keys())
WriteOrder(d) == Sorted(KeySet(d))

\* create_gabmap_txt_bytes: the text; the table it leaves behind is PadDatos
create_gabmap_txt_bytes(cs, d) ==
    LET padded == PadDatos(cs, d)
        orden == WriteOrder(d)
        Linea(k) == NombreLimpio(k) \o <<TAB>> \o Join(DictGet(padded, k), <<TAB>>)
                        \o <<CR, LF>>
    IN  Join(cs, <<TAB>>) \o <<CR, LF>>
            \o Concat([i \in 1..Len(orden) |-> Linea(orden[i])])

\* the text of an element after ET.tostring and ET.parse: an empty text is None
ETText(s) == IF s = <<>> THEN None ELSE Some(s)

\* the Placemark written for one locality
LocalityPlacemark(nombre, info) ==
    [name |-> Elem(ETText(nombre)),
     description |-> NoElem,
     point |-> info.lat # None /\ info.lon # None,
     polygon |-> FALSE,
     coordinates |-> IF info.lat # None /\ info.lon # None
                     THEN Elem(Some(FloatRepr(info.lon) \o <<",">>
                                        \o FloatRepr(info.lat) \o <<",", "0">>))
                     ELSE NoElem,
     ring |-> NoElem]

\* BoundaryVertex with the two fields of the line written in the other order
BoundaryVertexLatLon(line) ==
    LET parts == Split(Strip(line), ";")
    IN  IF Len(parts) >= 2
        THEN <<StripQuotes(parts[2]) \o <<",">> \o StripQuotes(parts[1]) \o <<",", "0">>>>
        ELSE <<>>

\* one vertex of the ring for a boundaries line, nothing for a short line
BoundaryVertex(line) ==
    LET parts == Split(Strip(line), ";")
    IN  IF Len(parts) >= 2
        THEN <<StripQuotes(parts[1]) \o <<",">> \o StripQuotes(parts[2]) \o <<",", "0">>>>
        ELSE <<>>

\* the Placemark named Boundaries
BoundariesPlacemark(lines) ==
    LET coords_list == Concat([i \in 1..Len(lines) |-> BoundaryVertex(lines[i])])
        text == ETText(Join(coords_list, <<SP>>))
    IN  [name |-> Elem(Some(<<"B", "o", "u", "n", "d", "a", "r", "i", "e", "s">>)),
         description |-> NoElem,
         point |-> FALSE,
         polygon |-> TRUE,
         coordinates |-> Elem(text),
         ring |-> Elem(text)]

\* create_kml_bytes, as the element tree that parsing its output gives
create_kml_bytes(localidades, boundaries) ==
    LET lines == SplitLines(Strip(boundaries.v))
    IN  [i \in 1..Len(localidades) |-> LocalityPlacemark(localidades[i].k, localidades[i].v)]
            \o (IF boundaries # None /\ boundaries.v # <<>> /\ lines # <<>>
                THEN <<BoundariesPlacemark(lines)>>
                ELSE <<>>)

\* the statistics of convert_diatech_to_gabmap
DiatechStats(cs, d, localidades) ==
    [conceptos |-> Len(cs),
     localidades |-> Len(d),
     localidades_con_coordenadas |->
         Cardinality({i \in 1..Len(localidades) :
                         localidades[i].v.lat # None /\ localidades[i].v.lon # None})]

-----------------------------------------------------------------------------
(* Inputs *)

MaxLocalities == 2      \* data lines of a TXT, locality columns of a CSV
MaxConcepts == 2        \* body lines of a CSV
MaxPlacemarks == 2      \* Placemarks of a KML
MaxVertices == 2        \* lines of a boundaries CSV

\* a value that no call has produced yet
Unset == [unset |-> TRUE]

\* all sequences over S of length at most n
SeqsUpTo(S, n) == UNION {[1..k -> S] : k \in 0..n}

\* the lines of a file, each ended by the line break eol
FileOf(lines, eol) == Concat([i \in 1..Len(lines) |-> lines[i] \o eol])

TxtHeaderLines ==
    { <<TAB, "C", TAB, "D">>,                  \* leading placeholder column
      <<"C", TAB, "D">> }                      \* no placeholder

TxtDataLines ==
    { <<"a", TAB, "x", TAB, "y">>,
      <<"A", TAB, "y">>,                       \* shorter than the header
      <<"b", TAB, TAB, "x", TAB, "y">>,        \* blank variant, longer than the header
      <<SP, "B", SP, TAB, "x", SP, TAB, SP, "y">>,   \* padded name and variants
      <<>> }                                   \* blank line

TxtInputs ==
    { FileOf(<<h>> \o ls, <<LF>>) :
        h \in TxtHeaderLines, ls \in SeqsUpTo(TxtDataLines, MaxLocalities) }

\* data lines of the TXT files given to the Gabmap reader alone
TxtCaseLines ==
    TxtDataLines
        \cup { <<"b", TAB, TAB>>,                \* every variant empty
               <<TAB, "x", TAB, "y">>,           \* empty first field
               <<"a">> }                         \* one field

TxtCaseInputs ==
    { FileOf(<<h>> \o ls, eol) :
        h \in TxtHeaderLines, ls \in SeqsUpTo(TxtCaseLines, MaxLocalities),
        eol \in {<<LF>>, <<CR, LF>>} }

PointPlacemark(nombre, coords) ==
    [name |-> Elem(Some(nombre)), description |-> NoElem, point |-> TRUE,
     polygon |-> FALSE, coordinates |-> Elem(Some(coords)), ring |-> NoElem]

PolygonPlacemark(nombre, ring) ==
    [name |-> Elem(Some(nombre)), description |-> NoElem, point |-> FALSE,
     polygon |-> TRUE, coordinates |-> ring, ring |-> ring]

\* the Placemarks of the KML files converted together with a TXT
KmlPlacemarks ==
    { PointPlacemark(<<"a">>, <<"-", "7", ".", "1", ",", "4", ".", "5", ",", "0">>),
      PointPlacemark(<<SP, "B", SP>>, <<"0", ",", "-", "3">>),
      PolygonPlacemark(<<"b">>, Elem(Some(<<"1", ",", "2", ",", "0", SP, "3", ",", "4", ",", "0">>))) }

KmlInputs == SeqsUpTo(KmlPlacemarks, MaxPlacemarks)

\* the Placemarks of the KML files given to the two KML functions alone
KmlCasePlacemarks ==
    { PointPlacemark(<<"a">>, <<"-", "7", ".", "1", ",", "4", ".", "5", ",", "0">>),
      \* a Point and a Polygon in one Placemark
      [name |-> Elem(Some(<<"b">>)), description |-> Elem(Some(<<"x">>)), point |-> TRUE,
       polygon |-> TRUE, coordinates |-> Elem(Some(<<"1", ",", "2">>)),
       ring |-> Elem(Some(<<"1", ",", "2", ",", "0", SP, "3", ",", "4", ",", "0">>))],
      PolygonPlacemark(<<"B">>, Elem(Some(<<SP, SP>>))),         \* blank ring text
      PolygonPlacemark(<<"B">>, Elem(None)),                     \* empty coordinates element
      PolygonPlacemark(<<"B">>, NoElem),                         \* no coordinates element
      PolygonPlacemark(<<"B">>, Elem(Some(<<"1", SP, "2">>))),   \* tokens without a comma
      PointPlacemark(<<"b">>, <<"x", ",", "1">>),                \* not a number
      PointPlacemark(<<"b">>, <<"3">>),                          \* one part
      PointPlacemark(<<SP, "A">>, <<"1", ",", "2", SP, "3", ",", "4">>),   \* several triples
      [name |-> Elem(Some(<<"b">>)), description |-> NoElem, point |-> TRUE,
       polygon |-> FALSE, coordinates |-> Elem(None), ring |-> NoElem],   \* empty coordinates
      [name |-> Elem(None), description |-> Elem(Some(<<SP, "y">>)), point |-> TRUE,
       polygon |-> FALSE, coordinates |-> Elem(Some(<<"5", ",", "6">>)), ring |-> NoElem],
      [name |-> NoElem, description |-> NoElem, point |-> TRUE,
       polygon |-> FALSE, coordinates |-> Elem(Some(<<"5", ",", "6">>)), ring |-> NoElem] }

KmlCaseInputs == SeqsUpTo(KmlCasePlacemarks, MaxPlacemarks)

\* header fields of a Diatech CSV, as written in the file
CsvHeaderFields ==
    { <<QUOTE, "a", "[", "4", ".", "5", ",", "-", "7", ".", "1", "]", QUOTE>>,
      <<QUOTE, "a", ",", SP, "b", "[", "4", ".", "5", ",", SP, "-", "7", "]", QUOTE>>,
      <<QUOTE, "A", SP, "b", "[", "0", ",", "1", "2", "]", QUOTE>>,
      <<QUOTE, "b", QUOTE>>,
      <<QUOTE, "a", ",", SP, "b", QUOTE>>,                           \* department, no brackets
      <<QUOTE, "b", "[", "1", ".", "2", ".", "3", ",", "4", "]", QUOTE>>,   \* not a number
      <<"b", "[", "x", "]">> }                                       \* brackets, no numbers

\* body lines of a Diatech CSV
CsvBodyLines ==
    { <<QUOTE, "C", QUOTE, ";", QUOTE, "x", QUOTE, ";", QUOTE, "y", QUOTE>>,
      <<"D", ";", QUOTE, SP, "y", SP, QUOTE>>,                       \* fewer fields
      <<QUOTE, QUOTE, ";", QUOTE, "x", QUOTE, ";", QUOTE, "y", QUOTE>>,   \* blank concept
      <<>> }                                                         \* empty line

CsvFileOf(fields, body) ==
    FileOf(<<Join(<<<<QUOTE, QUOTE>>>> \o fields, <<";">>)>> \o body, <<CR, LF>>)

CsvInputs ==
    { CsvFileOf(fs, body) :
        fs \in SeqsUpTo(CsvHeaderFields, MaxLocalities),
        body \in SeqsUpTo(CsvBodyLines, MaxConcepts) }

\* lines of a boundaries CSV
BoundaryLines ==
    { <<QUOTE, "-", "7", ".", "1", QUOTE, ";", QUOTE, "4", ".", "5", QUOTE>>,
      <<QUOTE, "-", "7", ".", "2", QUOTE, ";", QUOTE, "4", ".", "6", QUOTE>>,
      <<QUOTE, "1", QUOTE>>,                                         \* one field
      <<"5", ";", SP, "6">> }                                        \* no quotes

BoundaryInputs ==
    {None} \cup { Some(FileOf(ls, eol)) :
                     ls \in SeqsUpTo(BoundaryLines, MaxVertices), eol \in {<<CR, LF>>, <<LF>>} }

\* the CSV converted together with each boundaries file
PlainCsv ==
    CsvFileOf(<< <<QUOTE, "a", "[", "4", ".", "5", ",", "-", "7", ".", "1", "]", QUOTE>> >>,
              << <<QUOTE, "C", QUOTE, ";", QUOTE, "x", QUOTE>> >>)

\* keys and variant lists of the tables given to the TXT writer alone
WriterKeys ==
    { <<"a">>, <<"B">>,
      <<"a", "[", "1", ",", "2", "]">>,
      <<"a", SP, "b", "[", "1", ",", "2", "]">>,
      <<"a", ",", SP, "b", "[", "1", ",", "2", "]">>,
      <<SP, "b", "[", "x", "]">> }

WriterVariantes == { <<>>, << <<"x">> >>, << <<"x">>, <<>> >> }

WriterTables ==
    { d \in SeqsUpTo([k : WriterKeys, v : WriterVariantes], MaxLocalities) :
        \A i, j \in 1..Len(d) : i # j => d[i].k # d[j].k }

-----------------------------------------------------------------------------
(* The calls.  Flow(prog) is the order in which the caller makes them:      *)
(*   roundtrip: convert_gabmap_to_diatech, its outputs given to            *)
(*              convert_diatech_to_gabmap, whose outputs are read again    *)
(*   diatech:   convert_diatech_to_gabmap and its outputs read again       *)
(*   kml:       the two functions that read a KML                          *)
(*   writer:    create_gabmap_txt_bytes on a table, the TXT read again     *)

Flow(p) ==
    CASE p = "roundtrip" ->
            << "read_dialec_txt", "parse_kml", "create_diatech_csv",
               "extract_boundaries", "gabmap_stats",
               "read_diatech_csv", "create_gabmap_txt", "create_kml",
               "diatech_stats", "read_back_txt", "extract_back" >>
      [] p = "diatech" ->
            << "read_diatech_csv", "create_gabmap_txt", "create_kml",
               "diatech_stats", "read_back_txt", "extract_back" >>
      [] p = "kml" -> << "extract_boundaries", "parse_kml" >>
      [] p = "writer" -> << "create_gabmap_txt", "read_back_txt" >>
      [] p = "reader" -> << "read_dialec_txt" >>

\* the call to make now; none after an exception or at the end
Step ==
    IF exc = "" /\ pc \in 1..Len(Flow(prog)) THEN Flow(prog)[pc] ELSE "end"

\* the call named step has returned
Past(step) == \E i \in 1..Len(Flow(prog)) : Flow(prog)[i] = step /\ i < pc

inputs == <<prog, txt_bytes, kml_bytes>>
gabmap_side == <<conceptos, datos, localidades_kml, stats>>
diatech_side == <<d_conceptos, d_datos, d_localidades, txt_out, kml_out, d_stats>>
back_side == <<r_conceptos, r_datos, r_boundaries>>

InitComputed ==
    /\ pc = 1
    /\ exc = ""
    /\ conceptos = Unset /\ datos = Unset /\ localidades_kml = Unset /\ stats = Unset
    /\ d_conceptos = Unset /\ d_datos = Unset /\ d_localidades = Unset
    /\ txt_out = Unset /\ kml_out = Unset /\ d_stats = Unset
    /\ r_conceptos = Unset /\ r_datos = Unset /\ r_boundaries = Unset

Init ==
    /\ prog = "roundtrip"
    /\ txt_bytes \in TxtInputs
    /\ kml_bytes \in KmlInputs
    /\ csv_bytes = Unset
    /\ boundaries_bytes = Unset
    /\ InitComputed

\* conceptos, datos = read_dialec_txt_from_bytes(txt_bytes)
ReadDialecTxt ==
    /\ Step = "read_dialec_txt"
    /\ LET r == read_dialec_txt_from_bytes(txt_bytes)
       IN  conceptos' = r.conceptos /\ datos' = r.datos
    /\ pc' = pc + 1
    /\ UNCHANGED <<inputs, exc, localidades_kml, stats, csv_bytes, boundaries_bytes,
                   diatech_side, back_side>>

\* localidades_kml = parse_kml_from_bytes(kml_bytes)
ParseKml ==
    /\ Step = "parse_kml"
    /\ LET r == parse_kml_from_bytes(kml_bytes)
       IN  IF r.exc # ""
           THEN exc' = r.exc /\ UNCHANGED <<pc, localidades_kml>>
           ELSE localidades_kml' = r.localidades /\ pc' = pc + 1 /\ UNCHANGED exc
    /\ UNCHANGED <<inputs, conceptos, datos, stats, csv_bytes, boundaries_bytes,
                   diatech_side, back_side>>

\* csv_bytes = create_diatech_csv_bytes(conceptos, datos, localidades_kml, txt_filename)
CreateDiatechCsv ==
    /\ Step = "create_diatech_csv"
    /\ csv_bytes' = create_diatech_csv_bytes(conceptos, datos, localidades_kml)
    /\ pc' = pc + 1
    /\ UNCHANGED <<inputs, exc, gabmap_side, boundaries_bytes, diatech_side, back_side>>

\* boundaries_bytes = extract_country_boundaries_bytes(kml_bytes, kml_filename)
ExtractBoundaries ==
    /\ Step = "extract_boundaries"
    /\ boundaries_bytes' = extract_country_boundaries_bytes(kml_bytes)
    /\ pc' = pc + 1
    /\ UNCHANGED <<inputs, exc, gabmap_side, csv_bytes, diatech_side, back_side>>

\* stats = {...}; return csv_bytes, boundaries_bytes, stats
ComputeGabmapStats ==
    /\ Step = "gabmap_stats"
    /\ stats' = GabmapStats(conceptos, datos, localidades_kml)
    /\ pc' = pc + 1
    /\ UNCHANGED <<inputs, exc, conceptos, datos, localidades_kml, csv_bytes,
                   boundaries_bytes, diatech_side, back_side>>

\* conceptos, datos, localidades = read_diatech_csv_from_bytes(csv_bytes)
ReadDiatechCsv ==
    /\ Step = "read_diatech_csv"
    /\ \E r \in {read_diatech_csv_from_bytes(csv_bytes)} :
           IF r.exc # ""
           THEN exc' = r.exc /\ UNCHANGED <<pc, d_conceptos, d_datos, d_localidades>>
           ELSE /\ d_conceptos' = r.conceptos
                /\ d_datos' = r.datos
                /\ d_localidades' = r.localidades
                /\ pc' = pc + 1
                /\ UNCHANGED exc
    /\ UNCHANGED <<inputs, gabmap_side, csv_bytes, boundaries_bytes, txt_out, kml_out,
                   d_stats, back_side>>

\* txt_bytes = create_gabmap_txt_bytes(conceptos, datos); the call pads datos in place
CreateGabmapTxt ==
    /\ Step = "create_gabmap_txt"
    /\ txt_out' = create_gabmap_txt_bytes(d_conceptos, d_datos)
    /\ d_datos' = PadDatos(d_conceptos, d_datos)
    /\ pc' = pc + 1
    /\ UNCHANGED <<inputs, exc, gabmap_side, csv_bytes, boundaries_bytes, d_conceptos,
                   d_localidades, kml_out, d_stats, back_side>>

\* kml_bytes = create_kml_bytes(localidades, boundaries_bytes)
CreateKml ==
    /\ Step = "create_kml"
    /\ kml_out' = create_kml_bytes(d_localidades, boundaries_bytes)
    /\ pc' = pc + 1
    /\ UNCHANGED <<inputs, exc, gabmap_side, csv_bytes, boundaries_bytes, d_conceptos,
                   d_datos, d_localidades, txt_out, d_stats, back_side>>

\* stats = {...}; return txt_bytes, kml_bytes, stats
ComputeDiatechStats ==
    /\ Step = "diatech_stats"
    /\ d_stats' = DiatechStats(d_conceptos, d_datos, d_localidades)
    /\ pc' = pc + 1
    /\ UNCHANGED <<inputs, exc, gabmap_side, csv_bytes, boundaries_bytes, d_conceptos,
                   d_datos, d_localidades, txt_out, kml_out, back_side>>

\* the caller reads the produced TXT again
ReadBackTxt ==
    /\ Step = "read_back_txt"
    /\ LET r == read_dialec_txt_from_bytes(txt_out)
       IN  r_conceptos' = r.conceptos /\ r_datos' = r.datos
    /\ pc' = pc + 1
    /\ UNCHANGED <<inputs, exc, gabmap_side, csv_bytes, boundaries_bytes, diatech_side,
                   r_boundaries>>

\* the caller extracts the boundaries of the produced KML again
ExtractBack ==
    /\ Step = "extract_back"
    /\ r_boundaries' = extract_country_boundaries_bytes(kml_out)
    /\ pc' = pc + 1
    /\ UNCHANGED <<inputs, exc, gabmap_side, csv_bytes, boundaries_bytes, diatech_side,
                   r_conceptos, r_datos>>

Next ==
    \/ ReadDialecTxt
    \/ ParseKml
    \/ CreateDiatechCsv
    \/ ExtractBoundaries
    \/ ComputeGabmapStats
    \/ ReadDiatechCsv
    \/ CreateGabmapTxt
    \/ CreateKml
    \/ ComputeDiatechStats
    \/ ReadBackTxt
    \/ ExtractBack

Spec == Init /\ [][Next]_vars

InitDiatech ==
    /\ prog = "diatech"
    /\ txt_bytes = Unset
    /\ kml_bytes = Unset
    /\ \/ csv_bytes \in CsvInputs /\ boundaries_bytes = None
       \/ csv_bytes = PlainCsv /\ boundaries_bytes \in BoundaryInputs
    /\ InitComputed

NextDiatech ==
    \/ ReadDiatechCsv
    \/ CreateGabmapTxt
    \/ CreateKml
    \/ ComputeDiatechStats
    \/ ReadBackTxt
    \/ ExtractBack

SpecDiatech == InitDiatech /\ [][NextDiatech]_vars

InitKml ==
    /\ prog = "kml"
    /\ txt_bytes = Unset
    /\ kml_bytes \in KmlCaseInputs
    /\ csv_bytes = Unset
    /\ boundaries_bytes = Unset
    /\ InitComputed

NextKml ==
    \/ ExtractBoundaries
    \/ ParseKml

SpecKml == InitKml /\ [][NextKml]_vars

InitWriter ==
    /\ prog = "writer"
    /\ txt_bytes = Unset
    /\ kml_bytes = Unset
    /\ csv_bytes = Unset
    /\ boundaries_bytes = Unset
    /\ pc = 1
    /\ exc = ""
    /\ conceptos = Unset /\ datos = Unset /\ localidades_kml = Unset /\ stats = Unset
    /\ d_conceptos \in { << <<"C">> >>, << <<"C">>, <<"D">> >> }
    /\ d_datos \in WriterTables
    /\ d_localidades = Unset
    /\ txt_out = Unset /\ kml_out = Unset /\ d_stats = Unset
    /\ r_conceptos = Unset /\ r_datos = Unset /\ r_boundaries = Unset

NextWriter ==
    \/ CreateGabmapTxt
    \/ ReadBackTxt

SpecWriter == InitWriter /\ [][NextWriter]_vars

InitReader ==
    /\ prog = "reader"
    /\ txt_bytes \in TxtCaseInputs
    /\ kml_bytes = Unset
    /\ csv_bytes = Unset
    /\ boundaries_bytes = Unset
    /\ InitComputed

NextReader == ReadDialecTxt

SpecReader == InitReader /\ [][NextReader]_vars

-----------------------------------------------------------------------------
(* Claims *)

\* the entry of table d for key k has the variant sequence v
HasEntry(d, k, v) == DictHas(d, k) /\ DictGet(d, k) = v

\* C1: after Gabmap -> Diatech -> Gabmap and reading the produced TXT again, the
\* ConceptList is the one first read, in the same order, and every locality
\* of the table first read is in the table read again with the same variants.
C1_RoundTripPreservesTable ==
    Past("read_back_txt") =>
        /\ r_conceptos = conceptos
        /\ \A i \in 1..Len(datos) : HasEntry(r_datos, datos[i].k, datos[i].v)

\* every variant sequence of table d has the length of the concept list cs
FullWidth(cs, d) == \A i \in 1..Len(d) : Len(d[i].v) = Len(cs)

\* C2: every entry of the table returned by the Gabmap reader and by the
\* Diatech reader has exactly as many variants as the ConceptList returned
\* with it.
C2_VariantLengthIsConceptCount ==
    /\ Past("read_dialec_txt") => FullWidth(conceptos, datos)
    /\ Past("read_back_txt") => FullWidth(r_conceptos, r_datos)
    /\ (Past("read_diatech_csv") /\ ~Past("create_gabmap_txt"))
           => FullWidth(d_conceptos, d_datos)

\* two characters equal up to letter case
CaseEq(c, d) ==
    c = d \/ {c, d} \in {{"a", "A"}, {"b", "B"}, {"c", "C"}, {"d", "D"}}

\* two names equal up to letter case and surrounding whitespace
SameName(t, k) ==
    LET a == Strip(t)
        b == Strip(k)
    IN  Len(a) = Len(b) /\ \A i \in 1..Len(a) : CaseEq(a[i], b[i])

\* the locality names as they stand in the TXT: the first field of each data line
TxtRawNames ==
    LET lines == SplitLines(txt_bytes)
    IN  { Split(lines[i], TAB)[1] :
            i \in {j \in 2..Len(lines) : Len(Split(Strip(lines[j]), TAB)) >= 2} }

\* the names as they stand in the Point Placemarks of the KML (each of them
\* has coordinates that parse in the files converted together with a TXT)
KmlRawNames ==
    { kml_bytes[i].name.text.v :
        i \in {j \in 1..Len(kml_bytes) :
                  /\ ~kml_bytes[j].polygon
                  /\ kml_bytes[j].name.elem
                  /\ kml_bytes[j].name.text # None} }

\* the number of different names in S, names equal up to case and whitespace
\* counted once
NameClasses(S) == Cardinality({ {u \in S : SameName(u, t)} : t \in S })

\* C3: a table name and a KML name match exactly when they are equal up to
\* letter case and surrounding whitespace, whichever side carries the
\* difference: coincidencias counts the table names with such a KML name,
\* faltantes and faltantes_lista the table names without one.
C3_MatchIsCaseAndSpaceInsensitiveEquality ==
    Past("gabmap_stats") =>
        LET matched == {t \in TxtRawNames : \E k \in KmlRawNames : SameName(t, k)}
            unmatched == TxtRawNames \ matched
            lista == {stats.faltantes_lista[i] : i \in 1..Len(stats.faltantes_lista)}
        IN  /\ stats.coincidencias = NameClasses(matched)
            /\ stats.faltantes = NameClasses(unmatched)
            /\ \A t \in TxtRawNames :
                   (t \in unmatched) <=> (\E f \in lista : SameName(t, f))

\* C3 witness: a table name matched by a KML name that differs from it in
\* letter case and in surrounding whitespace.
C3_Witness ==
    /\ Past("gabmap_stats")
    /\ stats.coincidencias = 1
    /\ stats.faltantes = 0
    /\ \E t \in TxtRawNames, k \in KmlRawNames :
           /\ SameName(t, k)
           /\ Len(t) # Len(k)
           /\ Strip(t) # Strip(k)

\* the fields of the CSV header line as they stand in the file (no field of
\* the inputs holds a semicolon)
CsvRawHeader == Split(SplitLines(csv_bytes)[1], ";")

\* the header field "Name[lat,lon]" or "Name, Department[lat,lon]"
CoordField(name, dept, lat, gap, lon) ==
    <<QUOTE>> \o name \o (IF dept = <<>> THEN <<>> ELSE <<",", SP>> \o dept)
        \o <<"[">> \o lat \o <<",">> \o gap \o lon \o <<"]", QUOTE>>

FieldNames == { <<"a">>, <<"A", SP, "b">> }
FieldDepartments == { <<>>, <<"b">> }
FieldNumbers == { <<"4", ".", "5">>, <<"-", "7", ".", "1">>, <<"-", "7">>, <<"0">>, <<"1", "2">> }

\* the number a bracket token stands for
NumberOf(tok) ==
    CASE tok = <<"4", ".", "5">> -> [neg |-> FALSE, ip |-> <<"4">>, fp |-> <<"5">>]
      [] tok = <<"-", "7", ".", "1">> -> [neg |-> TRUE, ip |-> <<"7">>, fp |-> <<"1">>]
      [] tok = <<"-", "7">> -> [neg |-> TRUE, ip |-> <<"7">>, fp |-> <<>>]
      [] tok = <<"0">> -> [neg |-> FALSE, ip |-> <<>>, fp |-> <<>>]
      [] tok = <<"1", "2">> -> [neg |-> FALSE, ip |-> <<"1", "2">>, fp |-> <<>>]

\* the coordinate fields, each with the name and the numbers it is made of
CoordFields ==
    { [text |-> CoordField(name, dept, lat, gap, lon), name |-> name, lat |-> lat, lon |-> lon] :
        name \in FieldNames, dept \in FieldDepartments, lat \in FieldNumbers,
        lon \in FieldNumbers, gap \in {<<>>, <<SP>>} }

\* the ways to read col as a coordinate field
AsCoordField(col) == {f \in CoordFields : f.text = col}

\* C4: a header field Name[lat,lon] gives the locality Name with latitude the
\* first and longitude the second bracket number; Name, Department[lat,lon]
\* gives the same locality Name, the department dropped.  (When several
\* fields name one locality, the mapping holds the numbers of the last.)
C4_HeaderFieldGivesNameLatLon ==
    Past("read_diatech_csv") =>
        LET header == CsvRawHeader
        IN  \A j \in 2..Len(header) :
                \A f \in AsCoordField(header[j]) :
                    (\A l \in (j + 1)..Len(header) :
                         \A g \in AsCoordField(header[l]) : g.name # f.name)
                        => HasEntry(d_localidades, f.name,
                                    [lat |-> NumberOf(f.lat), lon |-> NumberOf(f.lon)])

\* C4 witness: a header with a Name, Department[lat, lon] field has been read
\* and the locality mapping has Name.
C4_Witness ==
    /\ Past("read_diatech_csv")
    /\ \E j \in 2..Len(CsvRawHeader) :
           CsvRawHeader[j] = CoordField(<<"a">>, <<"b">>, <<"4", ".", "5">>, <<SP>>, <<"-", "7">>)
    /\ DictHas(d_localidades, <<"a">>)
    /\ ~DictHas(d_localidades, <<"a", ",", SP, "b">>)

NotPolygon(p) == ~p.polygon

\* the name parse_kml_from_bytes gives the locality of Placemark p
PlacemarkName(p) == IF p.name.text = None THEN <<>> ELSE Strip(p.name.text.v)

\* C5: a Placemark with a Polygon inside it contributes no entry to the
\* locality mapping, also when it holds a Point with name and coordinates:
\* the mapping is the one of the file without these Placemarks, and each of
\* its names is the name of a Placemark without Polygon.
C5_PolygonPlacemarkGivesNoLocality ==
    Past("parse_kml") =>
        /\ localidades_kml
               = parse_kml_from_bytes(SelectSeq(kml_bytes, NotPolygon)).localidades
        /\ \A n \in KeySet(localidades_kml) :
               \E i \in 1..Len(kml_bytes) :
                   /\ ~kml_bytes[i].polygon
                   /\ kml_bytes[i].name.elem
                   /\ kml_bytes[i].coordinates.elem
                   /\ PlacemarkName(kml_bytes[i]) = n

\* C5 witness: a file with a named Placemark that holds a Point with valid
\* coordinates and a Polygon has been parsed; its name is not in the mapping,
\* the Point Placemark next to it is.
C5_Witness ==
    /\ Past("parse_kml")
    /\ \E i \in 1..Len(kml_bytes) :
           /\ kml_bytes[i].polygon /\ kml_bytes[i].point
           /\ kml_bytes[i].coordinates = Elem(Some(<<"1", ",", "2">>))
           /\ ~DictHas(localidades_kml, PlacemarkName(kml_bytes[i]))
    /\ Len(localidades_kml) = 1

NotQuote(c) == c # QUOTE

\* a field of a boundaries line: a number between quotes
IsQuotedNumber(f) ==
    /\ Len(f) >= 3
    /\ f[1] = QUOTE /\ f[Len(f)] = QUOTE
    /\ \A i \in 2..(Len(f) - 1) : IsNumChar(f[i])

\* a line "lon";"lat"
IsBoundaryLine(l) ==
    LET fs == Split(l, ";")
    IN  Len(fs) = 2 /\ IsQuotedNumber(fs[1]) /\ IsQuotedNumber(fs[2])

\* lon,lat,0 for the line "lon";"lat": the line without quotes, comma for semicolon
TripleOf(l) ==
    LET bare == SelectSeq(l, NotQuote)
    IN  [i \in 1..Len(bare) |-> IF bare[i] = ";" THEN "," ELSE bare[i]] \o <<",", "0">>

\* the boundaries CSV given to create_kml_bytes is one or more lines "lon";"lat"
WellFormedBoundaries ==
    /\ boundaries_bytes # None
    /\ SplitLines(boundaries_bytes.v) # <<>>
    /\ \A i \in 1..Len(SplitLines(boundaries_bytes.v)) :
           IsBoundaryLine(SplitLines(boundaries_bytes.v)[i])

\* C6: for a boundaries CSV of lines "lon";"lat", the KML gets one polygon
\* whose coordinates are the vertices as lon,lat,0 separated by spaces in
\* file order, and extracting the boundaries of that KML gives the same
\* lines in the same order (CRLF after each).
C6_BoundariesRoundTrip ==
    (Past("extract_back") /\ WellFormedBoundaries) =>
        LET lines == SplitLines(boundaries_bytes.v)
            polygons == {i \in 1..Len(kml_out) : kml_out[i].polygon}
        IN  /\ Cardinality(polygons) = 1
            /\ \A i \in polygons :
                   kml_out[i].ring
                       = Elem(Some(Join([j \in 1..Len(lines) |-> TripleOf(lines[j])], <<SP>>)))
            /\ r_boundaries = Some(FileOf(lines, <<CR, LF>>))

\* C6 witness: a boundaries CSV of two different vertices has gone through
\* create_kml_bytes and extract_country_boundaries_bytes.
C6_Witness ==
    /\ Past("extract_back")
    /\ WellFormedBoundaries
    /\ Len(SplitLines(boundaries_bytes.v)) = 2
    /\ SplitLines(boundaries_bytes.v)[1] # SplitLines(boundaries_bytes.v)[2]
    /\ r_boundaries = boundaries_bytes

\* the ring of the first Polygon of the KML has no coordinate token with two parts
NoVertex ==
    LET polygons == {i \in 1..Len(kml_bytes) : kml_bytes[i].polygon}
        ring == kml_bytes[CHOOSE i \in polygons : \A j \in polygons : i <= j].ring
    IN  \/ polygons = {}
        \/ ~ring.elem
        \/ ring.text = None
        \/ \A i \in 1..Len(SplitWS(ring.text.v)) : ~Contains(SplitWS(ring.text.v)[i], ",")

\* C7: when the boundary input has no vertex the boundaries output is None,
\* never a buffer of length zero.
C7_NoVertexGivesNone ==
    Past("extract_boundaries") =>
        /\ NoVertex => boundaries_bytes = None
        /\ boundaries_bytes # Some(<<>>)

\* the header fields that C8 allows for the table name n: "n[lat,lon]" with
\* the coordinates of a KML locality of the same key, "n" when there is none
HeaderFieldsFor(n) ==
    LET hits == {g \in 1..Len(localidades_kml) : SameName(localidades_kml[g].k, n)}
    IN  IF hits = {}
        THEN { <<QUOTE>> \o n \o <<QUOTE>> }
        ELSE { <<QUOTE>> \o n \o <<"[">> \o FloatRepr(localidades_kml[g].v.lat) \o <<",">>
                   \o FloatRepr(localidades_kml[g].v.lon) \o <<"]", QUOTE>> : g \in hits }

\* C8: the CSV header is an empty quoted field, then one field per table
\* entry in insertion order: "n[lat,lon]" when a KML name has the key of the
\* k-th table name n, "n" otherwise, n being the name as it appears in the
\* table.
C8_HeaderCarriesTableNames ==
    Past("create_diatech_csv") =>
        LET header == CsvRawHeader
        IN  /\ header[1] = <<QUOTE, QUOTE>>
            /\ Len(datos) >= 1 => Len(header) = Len(datos) + 1
            /\ \A k \in 1..Len(datos) :
                   k + 1 <= Len(header) /\ header[k + 1] \in HeaderFieldsFor(datos[k].k)

\* the lines of the TXT written by create_gabmap_txt_bytes
TxtOutLines == SplitLines(txt_out)

\* the locality names written on the lines after the first
WrittenNames ==
    [i \in 1..(Len(TxtOutLines) - 1) |-> Split(TxtOutLines[i + 1], TAB)[1]]

\* the first line is the tab-joined ConceptList, one line per entry follows
TxtOutShape ==
    /\ TxtOutLines[1] = Join(d_conceptos, <<TAB>>)
    /\ Len(TxtOutLines) = Len(d_datos) + 1

\* C9 as claimed: the first line is the tab-joined ConceptList and the lines
\* after it, one per entry, are in ascending order of the name written on them.
C9_LinesAscendByWrittenName ==
    Past("create_gabmap_txt") =>
        /\ TxtOutShape
        /\ \A i, j \in 1..Len(WrittenNames) :
               i < j => ~StrLess(WrittenNames[j], WrittenNames[i])

\* the position of key k among the keys of the table in ascending order
RankOfKey(k) == 1 + Cardinality({o \in KeySet(d_datos) : StrLess(o, k)})

\* a key with both bracket characters
HasBrackets(k) == Contains(k, "[") /\ Contains(k, "]")

\* C9 amended: the first line is the tab-joined ConceptList and the lines
\* after it, one per entry, are in ascending order of the table keys: the
\* line of an entry stands at the rank of its key and holds the name written
\* for that key and its variants.  The written names ascend when no key
\* carries brackets.
C9_LinesAscendByKey ==
    Past("create_gabmap_txt") =>
        /\ TxtOutShape
        /\ \A i \in 1..Len(d_datos) :
               TxtOutLines[RankOfKey(d_datos[i].k) + 1]
                   = NombreLimpio(d_datos[i].k) \o <<TAB>> \o Join(d_datos[i].v, <<TAB>>)
        /\ (\A i \in 1..Len(d_datos) : ~HasBrackets(d_datos[i].k))
               => \A i, j \in 1..Len(WrittenNames) :
                      i < j => StrLess(WrittenNames[i], WrittenNames[j])

\* C9 witness: a table whose entries were inserted in descending key order,
\* one key with brackets, has been written.
C9_Witness ==
    /\ Past("create_gabmap_txt")
    /\ Len(d_datos) = 2
    /\ StrLess(d_datos[2].k, d_datos[1].k)
    /\ HasBrackets(d_datos[1].k)
    /\ WrittenNames[1] = NombreLimpio(d_datos[2].k)

\* the part of key k before the first '[' and before the first ','
BareName(k) ==
    LET marks == {i \in 1..Len(k) : k[i] \in {"[", ","}}
        cut == IF marks = {} THEN Len(k) + 1
               ELSE CHOOSE i \in marks : \A j \in marks : i <= j
    IN  Strip(SubSeq(k, 1, cut - 1))

\* C10: the name written for every table key is the part of the key before
\* the first '[' and before the first ',': a key with a department after a
\* comma and no brackets is written without the department.
C10_WrittenNameIsBare ==
    Past("create_gabmap_txt") =>
        \A i \in 1..Len(d_datos) :
            WrittenNames[RankOfKey(d_datos[i].k)] = BareName(d_datos[i].k)

\* C11: no call of create_gabmap_txt_bytes, create_diatech_csv_bytes or
\* create_kml_bytes changes its arguments: the ConceptList, the LocalityTable
\* with every variant sequence, and the GeoLocality are after the call what
\* they were before it, also when a variant sequence is shorter than the
\* ConceptList.
C11_CallsLeaveArgumentsAlone ==
    [][ /\ CreateGabmapTxt => UNCHANGED <<d_conceptos, d_datos>>
        /\ CreateDiatechCsv => UNCHANGED <<conceptos, datos, localidades_kml>>
        /\ CreateKml => UNCHANGED <<d_localidades, boundaries_bytes>> ]_vars

\* the name of a header field that is no coordinate field: the field without
\* its quotes, up to the first '[' when it has one
UndecomposedName(col) == Strip(Split(StripQuotes(col), "[")[1])

\* C12: reading a Diatech CSV never fails on a header field that cannot be
\* decomposed into a name and two numbers, also when the bracket holds digits,
\* dots and minus signs that are no number: the read returns, and every such
\* field gives a locality with lat and lon absent.
C12_UndecomposableHeaderGivesNoCoordinates ==
    /\ exc # "ValueError"
    /\ Past("read_diatech_csv") =>
           \A j \in 2..Len(CsvRawHeader) :
               (/\ AsCoordField(CsvRawHeader[j]) = {}
                /\ \A l \in (j + 1)..Len(CsvRawHeader) :
                       UndecomposedName(CsvRawHeader[l]) # UndecomposedName(CsvRawHeader[j]))
                   => HasEntry(d_localidades, UndecomposedName(CsvRawHeader[j]),
                               [lat |-> None, lon |-> None])

\* the coordinates texts of the files that start with two numbers
ReadableCoordinates ==
    { <<"-", "7", ".", "1", ",", "4", ".", "5", ",", "0">>,
      <<"0", ",", "-", "3">>,
      <<"1", ",", "2", SP, "3", ",", "4">>,
      <<"5", ",", "6">> }

\* a Placemark without Polygon, with a name element and readable coordinates
ReadablePoint(p) ==
    /\ ~p.polygon
    /\ p.name.elem
    /\ p.coordinates.elem
    /\ p.coordinates.text # None
    /\ p.coordinates.text.v \in ReadableCoordinates

\* C13: parse_kml_from_bytes returns a mapping without raising: a Placemark
\* whose coordinates cannot be parsed (element without text, blank text, one
\* part, parts that are no numbers) is skipped, and every readable Point
\* Placemark of the file is in the mapping.
C13_UnparseablePlacemarkIsSkipped ==
    /\ exc # "AttributeError"
    /\ Past("parse_kml") =>
           \A i \in 1..Len(kml_bytes) :
               ReadablePoint(kml_bytes[i])
                   => DictHas(localidades_kml, PlacemarkName(kml_bytes[i]))

\* the lines of the TXT after the first, each split on tab as it stands
TxtRawLines ==
    LET lines == SplitLines(txt_bytes)
    IN  [i \in 1..(Len(lines) - 1) |-> Split(lines[i + 1], TAB)]

\* C14: every line after the first with at least two tab-separated fields
\* gives a table entry named by the line's first field (surrounding
\* whitespace aside) whose variants are the line's other fields, padded or
\* cut to the concept count, also when every variant is empty or the first
\* field is empty; every entry comes from such a line.  (Of several lines
\* with one name the last gives the entry.)
C14_EveryTwoFieldLineGivesAnEntry ==
    Past("read_dialec_txt") =>
        /\ \A i \in 1..Len(TxtRawLines) :
               (/\ Len(TxtRawLines[i]) >= 2
                /\ \A l \in (i + 1)..Len(TxtRawLines) :
                       Len(TxtRawLines[l]) >= 2
                           => Strip(TxtRawLines[l][1]) # Strip(TxtRawLines[i][1]))
                   => HasEntry(datos, Strip(TxtRawLines[i][1]),
                               AdjustVariantes(Tail(TxtRawLines[i]), Len(conceptos)))
        /\ \A n \in KeySet(datos) :
               \E i \in 1..Len(TxtRawLines) :
                   Len(TxtRawLines[i]) >= 2 /\ Strip(TxtRawLines[i][1]) = n

\* a body line whose concept field is blank: nothing but quotes and whitespace
\* before the first semicolon, or an empty line
BlankConceptLine(line) ==
    \A i \in 1..Len(Split(line, ";")[1]) : Split(line, ";")[1][i] \in {QUOTE, SP, TAB}

\* the CSV without the body lines whose concept field is blank
WithoutBlankConcepts(csv) ==
    LET lines == SplitLines(csv)
        kept == {i \in 1..Len(lines) : i = 1 \/ ~BlankConceptLine(lines[i])}
    IN  FileOf([j \in 1..Cardinality(kept) |->
                   lines[CHOOSE i \in kept : Cardinality({o \in kept : o <= i}) = j]],
               <<CR, LF>>)

\* C15: a body line whose concept field is blank, an entirely empty line
\* included, is skipped without error: the read returns the concepts and the
\* variants it returns for the CSV without these lines.
C15_BlankConceptLineIsSkipped ==
    /\ exc # "StopIteration"
    /\ (Past("read_diatech_csv") /\ ~Past("create_gabmap_txt")) =>
           /\ d_conceptos = read_diatech_csv_from_bytes(WithoutBlankConcepts(csv_bytes)).conceptos
           /\ d_datos = read_diatech_csv_from_bytes(WithoutBlankConcepts(csv_bytes)).datos

\* the header fields of the CSV written that carry bracketed coordinates
FieldsWithCoordinates ==
    {j \in 2..Len(CsvRawHeader) : HasBrackets(CsvRawHeader[j])}

\* C16: in the statistics of convert_gabmap_to_diatech the matched and the
\* unmatched localities are all the localities of the table, also when two
\* table names differ in letter case only: coincidencias + faltantes =
\* localidades, and coincidencias is the number of header fields of the CSV
\* with bracketed coordinates.
C16_MatchedAndUnmatchedPartitionTheTable ==
    Past("gabmap_stats") =>
        /\ stats.coincidencias + stats.faltantes = stats.localidades
        /\ stats.coincidencias = Cardinality(FieldsWithCoordinates)

\* C17: in the statistics of both conversions the number of localities with
\* coordinates is at most the number of localities: it counts localities of
\* the linguistic table only, also when the KML has Point Placemarks that
\* match no table row and when the CSV has a header with coordinates and no
\* data row.
C17_WithCoordinatesAtMostLocalities ==
    /\ Past("gabmap_stats") => stats.localidades_con_coordenadas <= stats.localidades
    /\ Past("diatech_stats")
           => d_stats.localidades_con_coordenadas <= d_stats.localidades

=============================================================================
